---------------------------- MODULE Spec2Model ----------------------------
(***************************************************************************)
(* A model of the test-generation scripts of ghostty-ai (src/scripts):     *)
(*   generate_ai_tests.py, generate_coverage_tests.py, add_inline_tests.py *)
(*   (the generation orchestrators and their credential rotation), and     *)
(*   fix_arraylist_deinit.py, fix_tests.py, fix_tests_comprehensive.py     *)
(*   (the repair passes).                                                  *)
(*                                                                         *)
(* Text is a sequence of tokens.  A token is a string of one or more       *)
(* characters; the text it stands for is the concatenation of its tokens.  *)
(* The vocabulary is chosen so that every match of every regular           *)
(* expression of the scripts begins and ends on a token boundary.          *)
(***************************************************************************)
EXTENDS Integers, Sequences, FiniteSets, TLC

(***************************************************************************)
(* Bounds of the model.                                                    *)
(***************************************************************************)
\* number of modules in the batch (TARGET_FILES / the glob of *.zig)
NumModules == 2
\* largest credential pool (CEREBRAS_API_KEY_1, CEREBRAS_API_KEY_2, ...)
MaxClients == 2
\* longest response, in tokens, handed to the extractors in SpecExtract
MaxRespLen == 4
\* pieces a test file is put together from, at most
MaxSnippets == 2
\* runs of the repair scripts on a file, at most
MaxPasses == 2

(***************************************************************************)
(* Tokens and character classes.                                           *)
(***************************************************************************)
\* the fence of a code block: the token stands for three backquote characters
Fence == "~~~"
\* a chunk of 96 characters of test code without fences, quotes or newlines
Body96 == "try std.testing.expect(true); try std.testing.expect(true); try std.testing.expect(true); //pad."

\* the lines of the header that save_tests writes, one token each
ImportStd == "const std = @import(\"std\");"
ImportTesting == "const testing = std.testing;"
ImportModule == "const module = @import(\"m.zig\");"
\* an import of another module of the repository
ImportOther == "const other = @import(\"o.zig\");"
HeaderDoc == "//! Auto-generated unit tests"
HeaderDoc2 == "//! Generated using Cerebras SDK"
HeaderComment == "// Import the module under test"
\* the lines append_tests writes before the new tests
SepLine == "// ============================================================================"
SepTitle == "// Additional tests for 100% coverage"

\* str.isspace: the whitespace tokens
IsSpace(t) == t \in {" ", "\n"}

\* tokens made of word characters only (\w+)
WordTokens ==
  {"a", "b", "x", "y", "z", "zig", "bash", "python", "pub", "fn", "test", "const",
   "var", "struct", "defer", "list", "my", "alloc", "gpa", "A", "std",
   "allocator", "ally", "items",
   "ValidationResult", "CommandValidator"}

IsWord(t) == t \in WordTokens

\* len(): the number of characters of a token
TokLen(t) ==
  CASE t = Fence -> 3
    [] t = Body96 -> 96
    [] t = "zig" -> 3
    [] t = "bash" -> 4
    [] t = "python" -> 6
    [] t = "pub" -> 3
    [] t = "fn" -> 2
    [] t = "test" -> 4
    [] t = "const" -> 5
    [] t = "struct" -> 6
    [] t = "module." -> 7
    [] t = "Here" -> 4
    [] t = ImportStd -> 27
    [] t = ImportTesting -> 28
    [] t = ImportModule -> 32
    [] t = ImportOther -> 32
    [] t = HeaderDoc -> 29
    [] t = HeaderDoc2 -> 32
    [] t = HeaderComment -> 31
    [] t = SepLine -> 79
    [] t = SepTitle -> 37
    [] OTHER -> 1

RECURSIVE CharLen(_)
CharLen(s) == IF s = <<>> THEN 0 ELSE TokLen(Head(s)) + CharLen(Tail(s))

RECURSIVE LStrip(_)
LStrip(s) == IF s = <<>> THEN s ELSE IF IsSpace(Head(s)) THEN LStrip(Tail(s)) ELSE s

RECURSIVE RStrip(_)
RStrip(s) ==
  IF s = <<>> THEN s
  ELSE IF IsSpace(s[Len(s)]) THEN RStrip(SubSeq(s, 1, Len(s) - 1)) ELSE s

\* str.strip()
strip(s) == RStrip(LStrip(s))

\* the least element of a non-empty set of integers
Least(S) == CHOOSE i \in S : \A j \in S : i <= j

\* s[i:] of Python, with 1-based i
From(s, i) == SubSeq(s, i, Len(s))

(***************************************************************************)
(* Code extraction: extract_zig_code (generate_coverage_tests.py),         *)
(* extract_tests (add_inline_tests.py), extract_zig_tests                  *)
(* (generate_ai_tests.py).                                                 *)
(***************************************************************************)
\* "```" in response
HasFence(r) == \E i \in 1..Len(r) : r[i] = Fence

\* "```zig" in response
HasZigFence(r) == \E i \in 1..(Len(r) - 1) : r[i] = Fence /\ r[i + 1] = "zig"

\* s.split("```")[0]
UpToFence(s) ==
  IF HasFence(s) THEN SubSeq(s, 1, Least({i \in 1..Len(s) : s[i] = Fence}) - 1) ELSE s

\* response.split("```zig")[1].split("```")[0]
ZigBlock(r) ==
  UpToFence(From(r, Least({i \in 1..(Len(r) - 1) : r[i] = Fence /\ r[i + 1] = "zig"}) + 2))

\* response.split("```")[1], then: if code.startswith("zig\n"): code = code[4:]
PlainBlock(r) ==
  LET code == UpToFence(From(r, Least({i \in 1..Len(r) : r[i] = Fence}) + 1))
  IN  IF Len(code) >= 2 /\ code[1] = "zig" /\ code[2] = "\n" THEN From(code, 3) ELSE code

extract_zig_code(response) ==
  IF HasZigFence(response) THEN strip(ZigBlock(response))
  ELSE IF HasFence(response) THEN strip(PlainBlock(response))
  ELSE strip(response)

extract_tests(response) ==
  IF HasZigFence(response) THEN strip(ZigBlock(response))
  ELSE IF HasFence(response) THEN strip(PlainBlock(response))
  ELSE <<>>

\* s.split("\n"): the lines of s
RECURSIVE SplitLines(_)
SplitLines(s) ==
  IF \E i \in 1..Len(s) : s[i] = "\n"
  THEN LET k == Least({i \in 1..Len(s) : s[i] = "\n"})
       IN  <<SubSeq(s, 1, k - 1)>> \o SplitLines(From(s, k + 1))
  ELSE <<s>>

\* "\n".join(lines)
RECURSIVE JoinLines(_)
JoinLines(ls) ==
  IF ls = <<>> THEN <<>>
  ELSE IF Len(ls) = 1 THEN ls[1]
  ELSE ls[1] \o <<"\n">> \o JoinLines(Tail(ls))

\* the lines extract_zig_tests drops: the imports the header already holds
IsHeaderImportLine(line) ==
  LET stripped == strip(line)
  IN  /\ stripped # <<>>
      /\ \/ Head(stripped) = ImportStd
         \/ Head(stripped) = ImportTesting
         \/ Head(stripped) = ImportModule
         \/ /\ \E i \in 1..Len(stripped) : stripped[i] \in {ImportModule, ImportOther}
            /\ \/ Head(stripped) \in {ImportStd, ImportTesting, ImportModule, ImportOther}
               \/ Len(stripped) >= 2 /\ stripped[1] = "const" /\ stripped[2] = " "

RECURSIVE FilterLines(_)
FilterLines(ls) ==
  IF ls = <<>> THEN <<>>
  ELSE IF IsHeaderImportLine(Head(ls)) THEN FilterLines(Tail(ls))
  ELSE <<Head(ls)>> \o FilterLines(Tail(ls))

extract_zig_tests(response) ==
  LET code == IF HasZigFence(response) THEN strip(ZigBlock(response))
              ELSE IF HasFence(response) THEN strip(PlainBlock(response))
              ELSE strip(response)
  IN  strip(JoinLines(FilterLines(SplitLines(code))))

(***************************************************************************)
(* Lexical scans of generate_coverage_tests.py and add_inline_tests.py.    *)
(* A name is the sequence of word tokens it is written with.               *)
(***************************************************************************)
\* the first index >= j of s that holds no whitespace (Len(s) + 1 when none)
RECURSIVE SkipWs(_, _)
SkipWs(s, j) == IF j <= Len(s) /\ IsSpace(s[j]) THEN SkipWs(s, j + 1) ELSE j

\* the index after the longest run of word tokens that starts at j
RECURSIVE WordRunEnd(_, _)
WordRunEnd(s, j) == IF j <= Len(s) /\ IsWord(s[j]) THEN WordRunEnd(s, j + 1) ELSE j

\* the first index >= j of s that holds token t (0 when none)
FirstTok(s, j, t) ==
  IF \E k \in j..Len(s) : s[k] = t THEN Least({k \in j..Len(s) : s[k] = t}) ELSE 0

\* str.lower() of a token
Lower(t) == IF t = "A" THEN "a" ELSE t

LowerName(n) == [k \in 1..Len(n) |-> Lower(n[k])]

\* fn\s+(\w+)\s*\([^)]*\)\s*(?:![^{]+)?(?:\s*[^{]*)?{  matched at the "fn" of
\* index i: the index of the closing "{", or 0 when there is no match
FnMatchEnd(s, i) ==
  IF ~(s[i] = "fn" /\ i < Len(s) /\ IsSpace(s[i + 1])) THEN 0
  ELSE LET n == SkipWs(s, i + 1)
           e == WordRunEnd(s, n)
           p == SkipWs(s, e)
       IN  IF e = n \/ p > Len(s) \/ s[p] # "(" THEN 0
           ELSE LET c == FirstTok(s, p + 1, ")")
                IN  IF c = 0 THEN 0 ELSE FirstTok(s, c + 1, "{")

FnName(s, i) == LET n == SkipWs(s, i + 1) IN SubSeq(s, n, WordRunEnd(s, n) - 1)

RECURSIVE FnScan(_, _)
FnScan(s, i) ==
  IF i > Len(s) THEN <<>>
  ELSE LET e == FnMatchEnd(s, i)
       IN  IF e > 0 THEN <<FnName(s, i)>> \o FnScan(s, e + 1) ELSE FnScan(s, i + 1)

extract_functions(content) == FnScan(content, 1)

\* const\s+(\w+)\s*=\s*struct\s*{  matched at the "const" of index i
StructMatch(s, i) ==
  /\ s[i] = "const" /\ i < Len(s) /\ IsSpace(s[i + 1])
  /\ LET n == SkipWs(s, i + 1)
         e == WordRunEnd(s, n)
         q == SkipWs(s, e)
     IN  /\ e > n /\ q <= Len(s) /\ s[q] = "="
         /\ LET k == SkipWs(s, q + 1)
            IN  /\ k <= Len(s) /\ s[k] = "struct"
                /\ LET b == SkipWs(s, k + 1) IN b <= Len(s) /\ s[b] = "{"

\* bool(extract_structs(content)): whether the source defines a struct
HasStructs(content) == \E i \in 1..Len(content) : StructMatch(content, i)

\* tokens that hold a word character
HasWordChar(t) == IsWord(t) \/ t \in {"module.", Body96}

\* tokens that hold a double quote
IsQuote(t) == t \in {"\"", "\\\""}

\* test\s+"[^"]*(\w+)[^"]*"  matched at the "test" of index i: the index of the
\* closing quote, or 0 when there is no match
TitleMatchEnd(s, i) ==
  IF ~(s[i] = "test" /\ i < Len(s) /\ IsSpace(s[i + 1])) THEN 0
  ELSE LET q == SkipWs(s, i + 1)
       IN  IF q > Len(s) \/ s[q] # "\"" THEN 0
           ELSE IF ~(\E k \in (q + 1)..Len(s) : IsQuote(s[k])) THEN 0
           ELSE LET c == Least({k \in (q + 1)..Len(s) : IsQuote(s[k])})
                IN  IF \E k \in (q + 1)..(c - 1) : HasWordChar(s[k]) THEN c ELSE 0

\* the last word character of a token that holds one
LastChar(t) ==
  CASE t = "zig" -> "g"
    [] t = "bash" -> "h"
    [] t \in {"python", "fn"} -> "n"
    [] t = "pub" -> "b"
    [] t \in {"test", "const", "struct", "list", "ValidationResult"} -> "t"
    [] t \in {"var", "defer", "CommandValidator"} -> "r"
    [] t = "my" -> "y"
    [] t = "alloc" -> "c"
    [] t = "gpa" -> "a"
    [] t = "module." -> "e"
    [] t = Body96 -> "d"
    [] OTHER -> t

\* group 1 of the title pattern: [^"]* is greedy, so (\w+) is left with the last
\* word character of the title
TitleGroup(s, i) ==
  LET q == SkipWs(s, i + 1)
      c == TitleMatchEnd(s, i)
      w == CHOOSE k \in (q + 1)..(c - 1) :
             HasWordChar(s[k]) /\ \A j \in (k + 1)..(c - 1) : ~HasWordChar(s[j])
  IN  <<LastChar(s[w])>>

RECURSIVE TitleScan(_, _)
TitleScan(s, i) ==
  IF i > Len(s) THEN {}
  ELSE LET e == TitleMatchEnd(s, i)
       IN  IF e > 0 THEN {LowerName(TitleGroup(s, i))} \cup TitleScan(s, e + 1)
           ELSE TitleScan(s, i + 1)

\* module\.(\w+)\s*\(  matched at the "module." of index i
CallMatch(s, i) ==
  /\ s[i] = "module."
  /\ LET e == WordRunEnd(s, i + 1)
         p == SkipWs(s, e)
     IN  e > i + 1 /\ p <= Len(s) /\ s[p] = "("

extract_tested_functions(test_content) ==
  TitleScan(test_content, 1)
    \cup {LowerName(SubSeq(test_content, i + 1, WordRunEnd(test_content, i + 1) - 1)) :
            i \in {k \in 1..Len(test_content) : CallMatch(test_content, k)}}

\* [f for f in functions if f.lower() not in tested and not f.startswith("test")]
Untested(functions, tested) ==
  SelectSeq(functions, LAMBDA f : LowerName(f) \notin tested /\ f[1] # "test")

\* re.search(r'^test\s+"', content, re.MULTILINE)
has_tests(content) ==
  \E i \in 1..Len(content) :
    /\ content[i] = "test"
    /\ i = 1 \/ content[i - 1] = "\n"
    /\ i < Len(content) /\ IsSpace(content[i + 1])
    /\ LET q == SkipWs(content, i + 1) IN q <= Len(content) /\ content[q] = "\""

(***************************************************************************)
(* State.                                                                  *)
(***************************************************************************)
(* Tokens of test files, for the repair passes.                            *)
(***************************************************************************)
\* std.ArrayListUnmanaged(u8){} and the type alone
ArrInit == "std.ArrayListUnmanaged(u8){}"
ArrType == "std.ArrayListUnmanaged(u8)"
TestAlloc == "std.testing.allocator"
\* the call of a cleanup function up to its arguments
DeinitOpen == ".deinit("
\* @import("std")
StdImportCall == "@import(\"std\")"
\* an escaped double quote inside a string literal
EscQuote == "\\\""
CommentMarker == "//"

\* the token ends (starts) with a word character: \b stands between a token
\* that does not end with one and a token that starts with one
EndsWord(t) == IsWord(t) \/ t = TestAlloc
StartsWord(t) == IsWord(t) \/ t \in {"module.", TestAlloc, ArrInit, ArrType}

\* \b before index i of s, where s[i] starts with a word character
WordStart(s, i) == i = 1 \/ ~EndsWord(s[i - 1])

\* ^ of a MULTILINE pattern before index i of s
LineStart(s, i) == i = 1 \/ s[i - 1] = "\n"

\* the greatest index in a..b of s that holds a newline (0 when none)
LastNewline(s, a, b) ==
  IF \E k \in a..b : s[k] = "\n"
    THEN CHOOSE k \in a..b : s[k] = "\n" /\ \A j \in (k + 1)..b : s[j] # "\n"
    ELSE 0

\* content.count('{') and content.count('}')
OpenBraces(t) == IF t \in {"{", ArrInit} THEN 1 ELSE 0
CloseBraces(t) == IF t \in {"}", ArrInit} THEN 1 ELSE 0

\* before.count('"') and before.count('\\"')
Quotes(t) == CASE t \in {"\"", EscQuote} -> 1 [] t = StdImportCall -> 2 [] OTHER -> 0
EscapedQuotes(t) == IF t = EscQuote THEN 1 ELSE 0

RECURSIVE CountOpen(_)
CountOpen(s) == IF s = <<>> THEN 0 ELSE OpenBraces(Head(s)) + CountOpen(Tail(s))

RECURSIVE CountClose(_)
CountClose(s) == IF s = <<>> THEN 0 ELSE CloseBraces(Head(s)) + CountClose(Tail(s))

RECURSIVE CountQuotes(_)
CountQuotes(s) == IF s = <<>> THEN 0 ELSE Quotes(Head(s)) + CountQuotes(Tail(s))

RECURSIVE CountEscaped(_)
CountEscaped(s) == IF s = <<>> THEN 0 ELSE EscapedQuotes(Head(s)) + CountEscaped(Tail(s))

(***************************************************************************)
(* fix_tests_comprehensive.py: fix_test_file, steps 1 to 6, and            *)
(* check_truncated.  A match function gives the index after the match that *)
(* starts at index i, or 0 when the pattern does not match there.          *)
(***************************************************************************)
\* ;\s*\n after the ";" at index k: the index after the last newline of the
\* whitespace that follows, or 0 when that whitespace holds no newline
AfterLineEnd(s, k) ==
  LET nl == LastNewline(s, k + 1, SkipWs(s, k + 1) - 1)
  IN  IF nl = 0 THEN 0 ELSE nl + 1

\* step 1: ^const module\.\w+ = module\.\w+;\s*\n
SelfRefEnd(s, i) ==
  IF ~(LineStart(s, i) /\ i + 3 <= Len(s)
       /\ s[i] = "const" /\ s[i + 1] = " " /\ s[i + 2] = "module.") THEN 0
  ELSE LET e1 == WordRunEnd(s, i + 3)
       IN  IF ~(e1 > i + 3 /\ e1 + 4 <= Len(s) /\ s[e1] = " " /\ s[e1 + 1] = "="
                /\ s[e1 + 2] = " " /\ s[e1 + 3] = "module.") THEN 0
           ELSE LET e2 == WordRunEnd(s, e1 + 4)
                IN  IF e2 > e1 + 4 /\ e2 <= Len(s) /\ s[e2] = ";"
                      THEN AfterLineEnd(s, e2) ELSE 0

\* step 2: ^pub const module\.\w+.*?;\s*\n
PubConstEnd(s, i) ==
  IF ~(LineStart(s, i) /\ i + 5 <= Len(s)
       /\ s[i] = "pub" /\ s[i + 1] = " " /\ s[i + 2] = "const" /\ s[i + 3] = " "
       /\ s[i + 4] = "module." /\ IsWord(s[i + 5])) THEN 0
  ELSE LET e1 == i + 6
           ends == {k \in e1..Len(s) :
                      /\ s[k] = ";"
                      /\ \A j \in e1..(k - 1) : s[j] # "\n"
                      /\ AfterLineEnd(s, k) > 0}
       IN  IF ends = {} THEN 0 ELSE AfterLineEnd(s, Least(ends))

\* re.sub(pattern, '', content) for the patterns of steps 1 and 2
RECURSIVE RemoveSelfRefs(_, _)
RemoveSelfRefs(s, i) ==
  IF i > Len(s) THEN <<>>
  ELSE LET e == SelfRefEnd(s, i)
       IN  IF e > 0 THEN RemoveSelfRefs(s, e) ELSE <<s[i]>> \o RemoveSelfRefs(s, i + 1)

RECURSIVE RemovePubConsts(_, _)
RemovePubConsts(s, i) ==
  IF i > Len(s) THEN <<>>
  ELSE LET e == PubConstEnd(s, i)
       IN  IF e > 0 THEN RemovePubConsts(s, e) ELSE <<s[i]>> \o RemovePubConsts(s, i + 1)

\* const std = @import("std");
StdImportLine == <<"const", " ", "std", " ", "=", " ", StdImportCall, ";">>

\* step 3: the lines, without the second and later imports of std
RECURSIVE DedupStdImports(_, _)
DedupStdImports(ls, seen) ==
  IF ls = <<>> THEN <<>>
  ELSE IF strip(Head(ls)) = StdImportLine
    THEN (IF seen THEN <<>> ELSE <<Head(ls)>>) \o DedupStdImports(Tail(ls), TRUE)
    ELSE <<Head(ls)>> \o DedupStdImports(Tail(ls), seen)

\* step 4: ^bash\s*$ and ^zig\s*$: the whitespace after the word is matched
\* up to the end of the text, or up to its last newline
ArtifactEnd(s, i, word) ==
  IF ~(LineStart(s, i) /\ s[i] = word) THEN 0
  ELSE LET w == SkipWs(s, i + 1)
           nl == LastNewline(s, i + 1, w - 1)
       IN  IF w > Len(s) THEN Len(s) + 1 ELSE nl

RECURSIVE RemoveArtifacts(_, _, _)
RemoveArtifacts(s, i, word) ==
  IF i > Len(s) THEN <<>>
  ELSE LET e == ArtifactEnd(s, i, word)
       IN  IF e > 0 THEN RemoveArtifacts(s, e, word)
           ELSE <<s[i]>> \o RemoveArtifacts(s, i + 1, word)

\* step 5: var\s+(\w+)\s*=\s*const\s+
VarConstEnd(s, i) ==
  IF ~(s[i] = "var" /\ i < Len(s) /\ IsSpace(s[i + 1])) THEN 0
  ELSE LET n == SkipWs(s, i + 1)
           e == WordRunEnd(s, n)
           p == SkipWs(s, e)
       IN  IF ~(e > n /\ p <= Len(s) /\ s[p] = "=") THEN 0
           ELSE LET q == SkipWs(s, p + 1)
                IN  IF q < Len(s) /\ s[q] = "const" /\ IsSpace(s[q + 1])
                      THEN SkipWs(s, q + 1) ELSE 0

VarConstName(s, i) == LET n == SkipWs(s, i + 1) IN SubSeq(s, n, WordRunEnd(s, n) - 1)

\* re.sub(..., r'const \1 = ', content)
RECURSIVE FixVarConst(_, _)
FixVarConst(s, i) ==
  IF i > Len(s) THEN <<>>
  ELSE LET e == VarConstEnd(s, i)
       IN  IF e > 0
             THEN <<"const", " ">> \o VarConstName(s, i) \o <<" ", "=", " ">> \o FixVarConst(s, e)
             ELSE <<s[i]>> \o FixVarConst(s, i + 1)

\* the index after the run of newlines that starts at i
RECURSIVE NewlineRunEnd(_, _)
NewlineRunEnd(s, i) == IF i <= Len(s) /\ s[i] = "\n" THEN NewlineRunEnd(s, i + 1) ELSE i

\* step 6: re.sub(r'\n{3,}', '\n\n', content)
RECURSIVE CollapseBlankLines(_, _)
CollapseBlankLines(s, i) ==
  IF i > Len(s) THEN <<>>
  ELSE LET e == NewlineRunEnd(s, i)
       IN  IF e - i >= 3 THEN <<"\n", "\n">> \o CollapseBlankLines(s, e)
           ELSE <<s[i]>> \o CollapseBlankLines(s, i + 1)

\* fix_tests_comprehensive.fix_test_file, lines 16-44: the new content
Comprehensive(content) ==
  LET c1 == RemoveSelfRefs(content, 1)
      c2 == RemovePubConsts(c1, 1)
      c3 == JoinLines(DedupStdImports(SplitLines(c2), FALSE))
      c4 == RemoveArtifacts(RemoveArtifacts(c3, 1, "bash"), 1, "zig")
      c5 == FixVarConst(c4, 1)
  IN  CollapseBlankLines(c5, 1)

\* a check that flags every file that holds an opening brace
check_truncated_any_open(content) == CountOpen(content) # 0

\* check_truncated: the braces do not balance
check_truncated(content) == CountOpen(content) # CountClose(content)

(***************************************************************************)
(* fix_tests.py: fix_test_file.                                            *)
(***************************************************************************)
\* TYPE_MAPPINGS, lines 10-56: the entry of test_validation.zig; a file name
\* without an entry has no types
KnownFiles == {"test_validation.zig"}
TYPE_MAPPINGS(filename) ==
  IF filename = "test_validation.zig" THEN <<"ValidationResult", "CommandValidator">> ELSE <<>>

\* (?<=[\s\(,=]): the token before ends with one of these characters
EndsBeforeType(t) == t \in {" ", "\n", "(", ",", "=", DeinitOpen}
\* (?=[\s\.\(,\)]): the token after starts with one of these characters
StartsAfterType(t) == t \in {" ", "\n", ".", "(", ",", ")", DeinitOpen}

\* line 75: (?<!module\.)(?<!["\'])(?<!\@import\(")(?<=[\s\(,=])(T)(?=[\s\.\(,\)])
QualifyMatch(s, i, ty) ==
  /\ s[i] = ty
  /\ i > 1 /\ EndsBeforeType(s[i - 1])
  /\ i < Len(s) /\ StartsAfterType(s[i + 1])

\* re.sub(pattern, r'module.\1', content)
RECURSIVE Qualify(_, _, _)
Qualify(s, i, ty) ==
  IF i > Len(s) THEN <<>>
  ELSE (IF QualifyMatch(s, i, ty) THEN <<"module.", ty>> ELSE <<s[i]>>) \o Qualify(s, i + 1, ty)

\* line 79: ^(\s*)(var|const)\s+(\w+)\s*=\s*(T)\.   The index of T, or 0.
InitMatch(s, i, ty) ==
  IF ~LineStart(s, i) THEN 0
  ELSE LET a == SkipWs(s, i)
       IN  IF ~(a < Len(s) /\ s[a] \in {"var", "const"} /\ IsSpace(s[a + 1])) THEN 0
           ELSE LET n == SkipWs(s, a + 1)
                    e == WordRunEnd(s, n)
                    p == SkipWs(s, e)
                IN  IF ~(e > n /\ p <= Len(s) /\ s[p] = "=") THEN 0
                    ELSE LET q == SkipWs(s, p + 1)
                         IN  IF q < Len(s) /\ s[q] = ty /\ s[q + 1] \in {".", DeinitOpen}
                               THEN q ELSE 0

\* re.sub(pattern, rf'\1\2 \3 = module.\4.', content, flags=re.MULTILINE)
RECURSIVE QualifyInit(_, _, _)
QualifyInit(s, i, ty) ==
  IF i > Len(s) THEN <<>>
  ELSE LET q == InitMatch(s, i, ty)
       IN  IF q > 0
             THEN LET a == SkipWs(s, i)
                      n == SkipWs(s, a + 1)
                  IN  SubSeq(s, i, a - 1) \o <<s[a], " ">> \o SubSeq(s, n, WordRunEnd(s, n) - 1)
                        \o <<" ", "=", " ", "module.", ty>> \o QualifyInit(s, q + 1, ty)
             ELSE <<s[i]>> \o QualifyInit(s, i + 1, ty)

\* line 83: :\s*(T)(?=[,\)\s])   The index of T, or 0.
AnnotationMatch(s, i, ty) ==
  IF s[i] # ":" THEN 0
  ELSE LET q == SkipWs(s, i + 1)
       IN  IF q < Len(s) /\ s[q] = ty /\ s[q + 1] \in {",", ")", " ", "\n"} THEN q ELSE 0

\* re.sub(pattern, r': module.\1', content)
RECURSIVE QualifyAnnotation(_, _, _)
QualifyAnnotation(s, i, ty) ==
  IF i > Len(s) THEN <<>>
  ELSE LET q == AnnotationMatch(s, i, ty)
       IN  IF q > 0 THEN <<":", " ", "module.", ty>> \o QualifyAnnotation(s, q + 1, ty)
           ELSE <<s[i]>> \o QualifyAnnotation(s, i + 1, ty)

\* lines 72-84: the three substitutions, for each type in turn
RECURSIVE QualifyTypes(_, _)
QualifyTypes(s, types) ==
  IF types = <<>> THEN s
  ELSE LET ty == Head(types)
           c == QualifyAnnotation(QualifyInit(Qualify(s, 1, ty), 1, ty), 1, ty)
       IN  QualifyTypes(c, Tail(types))

\* the names of line 89
FixedNames ==
  {"list", "items", "buffer", "result", "output", "members", "cursors", "events",
   "names", "tags", "issues", "reasons", "preview", "tools", "resources"}

\* line 89: (\b(?:list|items|...))\s*\.deinit\(\)   The index after the match, or 0.
FixedDeinitEnd(s, i) ==
  IF ~(s[i] \in FixedNames /\ WordStart(s, i)) THEN 0
  ELSE LET q == SkipWs(s, i + 1)
       IN  IF q < Len(s) /\ s[q] = DeinitOpen /\ s[q + 1] = ")" THEN q + 2 ELSE 0

\* re.sub(..., r'\1.deinit(alloc)', content)
RECURSIVE FixedDeinit(_, _)
FixedDeinit(s, i) ==
  IF i > Len(s) THEN <<>>
  ELSE LET e == FixedDeinitEnd(s, i)
       IN  IF e > 0 THEN <<s[i], DeinitOpen, "alloc", ")">> \o FixedDeinit(s, e)
           ELSE <<s[i]>> \o FixedDeinit(s, i + 1)

\* fix_tests.fix_test_file, lines 60-90: the new content of the file
QualifyAndDeinit(filename, content) ==
  IF filename \notin KnownFiles THEN content
  ELSE FixedDeinit(QualifyTypes(content, TYPE_MAPPINGS(filename)), 1)

(***************************************************************************)
(* fix_arraylist_deinit.py                                                 *)
(***************************************************************************)
\* const\s+(name)\s*=  or  var\s+(name)\s*= , with \s*std\.testing\.allocator
\* after it where the pattern asks for it
AllocatorPattern(s, kw, name, testing) ==
  \E i \in 1..Len(s) :
    /\ s[i] = kw /\ i < Len(s) /\ IsSpace(s[i + 1])
    /\ LET n == SkipWs(s, i + 1)
           p == SkipWs(s, n + 1)
       IN  /\ n <= Len(s) /\ s[n] = name
           /\ p <= Len(s) /\ s[p] = "="
           /\ testing => LET q == SkipWs(s, p + 1) IN q <= Len(s) /\ s[q] = TestAlloc

\* detect_allocator_name, lines 29-47
detect_allocator_name(content) ==
  CASE AllocatorPattern(content, "const", "alloc", TRUE) -> <<"alloc">>
    [] OTHER ->
  CASE AllocatorPattern(content, "const", "allocator", TRUE) -> <<"allocator">>
    [] OTHER ->
  CASE AllocatorPattern(content, "const", "gpa", FALSE) -> <<"gpa">>
    [] OTHER ->
  CASE AllocatorPattern(content, "const", "ally", FALSE) -> <<"ally">>
    [] OTHER ->
  CASE AllocatorPattern(content, "var", "alloc", TRUE) -> <<"alloc">>
    [] OTHER ->
  CASE AllocatorPattern(content, "var", "allocator", TRUE) -> <<"allocator">>
    [] OTHER ->
  IF \E i \in 1..Len(content) : content[i] = TestAlloc THEN <<TestAlloc>> ELSE <<"alloc">>

\* is_inside_comment_or_string(content, match_start), with match_start the
\* first character of the token at index i
is_inside_comment_or_string(s, i) ==
  LET line_start == LastNewline(s, 1, i - 1) + 1
      before == SubSeq(s, 1, i - 1)
  IN  \/ \E k \in line_start..(i - 1) : s[k] = CommentMarker
      \/ (CountQuotes(before) - CountEscaped(before)) % 2 = 1

\* \bvar\s+(\w+)\s*=\s*std\.ArrayListUnmanaged\([^)]*\)\{\}  (line 93) and
\* \bvar\s+(\w+)\s*:\s*std\.ArrayListUnmanaged\([^)]*\)  (line 96) at index i
ArrayListDecl(s, i) ==
  /\ s[i] = "var" /\ WordStart(s, i) /\ i < Len(s) /\ IsSpace(s[i + 1])
  /\ LET n == SkipWs(s, i + 1)
         e == WordRunEnd(s, n)
         p == SkipWs(s, e)
         q == SkipWs(s, p + 1)
     IN  /\ e > n /\ q <= Len(s)
         /\ \/ /\ s[p] = "="
               /\ \/ s[q] = ArrInit
                  \/ s[q] = ArrType /\ q + 2 <= Len(s) /\ s[q + 1] = "{" /\ s[q + 2] = "}"
            \/ s[p] = ":" /\ s[q] \in {ArrType, ArrInit}

\* arraylist_vars, lines 93-97
arraylist_vars(s) ==
  {VarConstName(s, i) : i \in {j \in 1..Len(s) : ArrayListDecl(s, j)}}

\* the tokens of name stand at index i of s
NameAt(s, i, name) == i + Len(name) - 1 <= Len(s) /\ SubSeq(s, i, i + Len(name) - 1) = name

\* \bdefer\s+NAME\.deinit\(\)  (line 106): the index after the match, or 0
DeferEnd(s, i, name) ==
  IF ~(s[i] = "defer" /\ WordStart(s, i) /\ i < Len(s) /\ IsSpace(s[i + 1])) THEN 0
  ELSE LET n == SkipWs(s, i + 1)
           d == n + Len(name)
       IN  IF NameAt(s, n, name) /\ d < Len(s) /\ s[d] = DeinitOpen /\ s[d + 1] = ")"
             THEN d + 2 ELSE 0

\* re.sub(defer_pattern, make_defer_replacer(content), content), lines 110-118
RECURSIVE FixDefer(_, _, _, _)
FixDefer(s, i, name, alloc) ==
  IF i > Len(s) THEN <<>>
  ELSE LET e == DeferEnd(s, i, name)
       IN  IF e = 0 THEN <<s[i]>> \o FixDefer(s, i + 1, name, alloc)
           ELSE (IF is_inside_comment_or_string(s, i) THEN SubSeq(s, i, e - 1)
                 ELSE <<"defer", " ">> \o name \o <<DeinitOpen>> \o alloc \o <<")">>)
                  \o FixDefer(s, e, name, alloc)

\* the pattern of line 121 without its word boundary: it also matches where
\* the name is the end of a longer identifier
DeinitEnd_no_boundary(s, i, name) ==
  LET d == i + Len(name)
  IN  IF NameAt(s, i, name) /\ d + 1 < Len(s)
         /\ s[d] = DeinitOpen /\ s[d + 1] = ")" /\ s[d + 2] = ";"
        THEN d + 3 ELSE 0

\* \bNAME\.deinit\(\);  (line 121): the index after the match, or 0
DeinitEnd(s, i, name) ==
  LET d == i + Len(name)
  IN  IF NameAt(s, i, name) /\ WordStart(s, i) /\ d + 1 < Len(s)
         /\ s[d] = DeinitOpen /\ s[d + 1] = ")" /\ s[d + 2] = ";"
        THEN d + 3 ELSE 0

\* re.sub(deinit_pattern, make_deinit_replacer(content), content), lines 124-133
RECURSIVE FixDeinit(_, _, _, _)
FixDeinit(s, i, name, alloc) ==
  IF i > Len(s) THEN <<>>
  ELSE LET e == DeinitEnd(s, i, name)
       IN  IF e = 0 THEN <<s[i]>> \o FixDeinit(s, i + 1, name, alloc)
           ELSE (IF is_inside_comment_or_string(s, i) THEN SubSeq(s, i, e - 1)
                 ELSE name \o <<DeinitOpen>> \o alloc \o <<")", ";">>)
                  \o FixDeinit(s, e, name, alloc)

\* the loop of lines 103-133 over the names; the set is gone through in some
\* order, and the rewrites for different names do not touch each other
RECURSIVE FixNames(_, _, _)
FixNames(s, names, alloc) ==
  IF names = {} THEN s
  ELSE LET name == CHOOSE n \in names : TRUE
       IN  FixNames(FixDeinit(FixDefer(s, 1, name, alloc), 1, name, alloc),
                    names \ {name}, alloc)

\* fix_arraylist_deinit.fix_test_file, lines 88-133: the new content
InjectAllocator(content) ==
  FixNames(content, arraylist_vars(content), detect_allocator_name(content))

(***************************************************************************)
VARIABLES
  \* the generation scripts
  script,              \* the entry point that runs: "generate", "coverage" or "inline"
  nclients,            \* len(clients)
  regenerate,          \* whether the environment variable REGENERATE is set
  current_client_idx,  \* the rotation index
  pc,                  \* where main stands: "loop", "analyze", "generate", "done", "aborted"
  mod,                 \* the module the batch loop is at (1..NumModules, then NumModules + 1)
  attempt,             \* the loop variable of the retry loop of the running call
  analysis,            \* analysis["analysis"] of generate_ai_tests.main
  src,                 \* src[m]: the source file of module m
  tst,                 \* tst[m]: the test file tests/test_<m>
  results,             \* the results list of generate_ai_tests.main
  stats,               \* the stats counters of the other two scripts
  log,                 \* history: what was done for the module processed last
  \* the extractors on their own
  response,            \* the response text handed to an extractor
  extracted,           \* what each extractor returned for it
  \* the repair scripts
  filename,            \* filepath.name of the test file the scripts are run on
  file_content,        \* what the file holds
  backups,             \* the contents of the copies in .backups
  last,                \* history: the last run of a fix_test_file on the file
  npasses,             \* history: how many runs there were
  truncated            \* whether the file is on the truncated list of the last report

orchVars == <<script, nclients, regenerate, current_client_idx, pc, mod, attempt,
              analysis, src, tst, results, stats, log>>
extractVars == <<response, extracted>>
repairVars == <<filename, file_content, backups, last, npasses, truncated>>
vars == <<orchVars, extractVars, repairVars>>

(***************************************************************************)
(* The credential pool (generate_ai_tests.py 30-42 and its two copies).    *)
(***************************************************************************)
get_client == current_client_idx

\* a rotation that stays on the rejected credential
rotate_client_stays(i) == i

rotate_client(i) == (i + 1) % nclients

\* a retry loop that goes round once more than the pool holds credentials
AttemptLimit_one_more == nclients + 1

\* range(len(clients)): the number of iterations of a retry loop
AttemptLimit == nclients

\* str(e) of a backend exception, by what the message holds
ErrorMessages == {<<"429">>, <<"rate">>, <<"quota">>, <<"limit">>, <<"other">>}

\* the test of the except clause that decides between rotate-and-retry and return
IsRateLimit(sc, msg) ==
  CASE sc = "generate" -> msg \in {<<"429">>, <<"rate">>, <<"quota">>}
    [] sc = "coverage" -> msg \in {<<"429">>, <<"rate">>, <<"quota">>, <<"limit">>}
    [] sc = "inline" -> msg \in {<<"429">>, <<"rate">>}

(***************************************************************************)
(* Files and responses of the model.                                       *)
(***************************************************************************)
NoFile == [exists |-> FALSE, content |-> <<>>]
File(c) == [exists |-> TRUE, content |-> c]

\* a source with one public function, a
SrcA == <<"pub", " ", "fn", " ", "a", "(", ")", " ", "{", "}", "\n">>
\* the same source with an inline test
SrcAT == SrcA \o <<"test", " ", "\"", "a", "\"", " ", "{", "}", "\n">>

\* the header save_tests puts before the tests
Header ==
  <<HeaderDoc, "\n", HeaderDoc2, "\n", "\n", ImportStd, "\n", ImportTesting, "\n", "\n",
    HeaderComment, "\n", ImportModule, "\n", "\n">>

\* a test file that save_tests wrote, with a test of function a
TstA == Header \o <<"test", " ", "\"", "a", "\"", " ", "{", "}", "\n">>

\* a source with one public function, ab, and a test file with a test whose
\* title is the name of that function
SrcAB == <<"pub", " ", "fn", " ", "a", "b", "(", ")", " ", "{", "}", "\n">>
TstAB == Header \o <<"test", " ", "\"", "a", "b", "\"", " ", "{", "}", "\n">>
\* the source with function a and a struct besides
SrcAS == SrcA \o <<"const", " ", "A", " ", "=", " ", "struct", " ", "{", "}", "\n">>

\* the files of a module, as far as the script reads them: generate_ai_tests
\* looks at the source and at whether the test file exists, add_inline_tests at
\* the source only, generate_coverage_tests at both (its sources come from a
\* glob: they exist)
ModuleSetups(sc) ==
  CASE sc = "generate" ->
         { [src |-> NoFile, tst |-> NoFile],
           [src |-> File(SrcA), tst |-> NoFile],
           [src |-> File(SrcA), tst |-> File(TstA)] }
    [] sc = "coverage" ->
         { [src |-> File(SrcA), tst |-> NoFile],
           [src |-> File(SrcA), tst |-> File(TstA)],
           [src |-> File(<<>>), tst |-> NoFile],
           [src |-> File(SrcAB), tst |-> File(TstAB)],
           [src |-> File(SrcAS), tst |-> File(TstA)] }
    [] sc = "inline" ->
         { [src |-> NoFile, tst |-> NoFile],
           [src |-> File(SrcA), tst |-> NoFile],
           [src |-> File(SrcAT), tst |-> NoFile] }

\* n tokens "x"
Xs(n) == [k \in 1..n |-> "x"]

\* a response whose fenced zig block holds 96 + n characters
Fenced(n) == <<"Here", " ", Fence, "zig", "\n", Body96>> \o Xs(n) \o <<"\n", Fence, "\n">>

Responses ==
  { <<>>,                          \* an empty completion
    Fenced(3), Fenced(4), Fenced(5),
    <<Body96>> \o Xs(5),           \* 101 characters of code without a fence
    <<Fence, "\n", Fence>> }       \* a fenced block that holds nothing

\* what a submission of a generation prompt can answer
Outcomes ==
  [kind : {"ok"}, text : Responses] \cup [kind : {"error"}, text : ErrorMessages]

\* what a submission of the analysis prompt can answer: an analysis, or nothing
AnalysisOutcomes ==
  [kind : {"ok"}, text : {<<>>, <<"{\"functions\": [\"a\"]}">>}]
    \cup [kind : {"error"}, text : ErrorMessages]

\* the threshold of "len(test_code) > 100"
MinLength == 100

(***************************************************************************)
(* History records.                                                        *)
(***************************************************************************)
\* a backend submission made with credential cred; out is "ok", "rate" or "perm"
CallEvent(call, cred, out) ==
  [call |-> call, cred |-> cred, out |-> out, before |-> NoFile, code |-> <<>>]

\* the code an extractor returned
ExtractEvent(code) ==
  [call |-> "extract", cred |-> -1, out |-> "ok", before |-> NoFile, code |-> code]

\* a write of code to a file that was `before`; out is how the write went
WriteEvent(out, before, code) ==
  [call |-> "write", cred |-> -1, out |-> out, before |-> before, code |-> code]

OutClass(o) ==
  IF o.kind = "ok" THEN "ok" ELSE IF IsRateLimit(script, o.text) THEN "rate" ELSE "perm"

\* a retry loop that also goes round again after a permanent error
Retries_any_error(o) == o.kind = "error" /\ attempt + 1 < AttemptLimit

\* whether the retry loop goes round again after outcome o of this iteration
Retries(o) == OutClass(o) = "rate" /\ attempt + 1 < AttemptLimit

\* what the call returns when it ends with outcome o
Returned(o) == IF o.kind = "ok" THEN o.text ELSE <<>>

\* an index that goes back to the first credential when a call returns
IdxAfter_reset_on_return(o) ==
  IF OutClass(o) = "rate" THEN rotate_client(current_client_idx) ELSE 0

\* the rotation index after an iteration with outcome o
IdxAfter(o) ==
  IF OutClass(o) = "rate" THEN rotate_client(current_client_idx) ELSE current_client_idx

Result(m, ok, note) == [filename |-> m, success |-> ok, note |-> note]

(***************************************************************************)
(* generate_ai_tests.main: one action per stretch of the loop body between *)
(* two backend submissions.                                                *)
(***************************************************************************)
BasicAnalysis == <<"Basic struct and function testing">>

\* lines 319-342: from the top of the loop body to the call of analyze_zig_file
G_Loop ==
  /\ script = "generate" /\ pc = "loop" /\ mod <= NumModules
  /\ log' = <<>>
  /\ UNCHANGED <<script, nclients, regenerate, current_client_idx, analysis, src, tst,
                 stats, extractVars, repairVars>>
  /\ IF ~src[mod].exists
       THEN /\ results' = Append(results, Result(mod, FALSE, "not found"))
            /\ mod' = mod + 1
            /\ UNCHANGED <<pc, attempt>>
     ELSE IF tst[mod].exists /\ ~regenerate
       THEN /\ results' = Append(results, Result(mod, TRUE, "skipped"))
            /\ mod' = mod + 1
            /\ UNCHANGED <<pc, attempt>>
     ELSE \E rd \in {"ok", "fails"} :
            \* read_file turns an exception into ""
            LET content == IF rd = "ok" THEN src[mod].content ELSE <<>>
            IN  IF content = <<>>
                  THEN /\ results' = Append(results, Result(mod, FALSE, "read error"))
                       /\ mod' = mod + 1
                       /\ UNCHANGED <<pc, attempt>>
                  ELSE /\ pc' = "analyze"
                       /\ attempt' = 0
                       /\ UNCHANGED <<results, mod>>

\* analyze_zig_file, lines 136-156: one iteration of its retry loop, and lines
\* 348-350 of main when the call returns
G_Analyze ==
  /\ script = "generate" /\ pc = "analyze"
  /\ \E o \in AnalysisOutcomes :
       /\ log' = Append(log, CallEvent("analyze", get_client, OutClass(o)))
       /\ current_client_idx' = IdxAfter(o)
       /\ IF Retries(o)
            THEN /\ attempt' = attempt + 1
                 /\ UNCHANGED <<pc, analysis>>
            ELSE /\ attempt' = 0
                 /\ pc' = "generate"
                 /\ analysis' = IF Returned(o) = <<>> THEN BasicAnalysis ELSE Returned(o)
  /\ UNCHANGED <<script, nclients, regenerate, mod, src, tst, results, stats, extractVars, repairVars>>

\* the header and the tests, as save_tests composes them
FullContent(tests) == Header \o tests

\* save_tests, lines 272-277: open(output_file, "w") and f.write; an exception
\* of either is caught and printed.  A write that fails after the open has
\* truncated the file.
SaveOutcomes == {"ok", "open_fails", "write_fails"}

SavedFile(wr, old, tests) ==
  CASE wr = "ok" -> File(FullContent(tests))
    [] wr = "open_fails" -> old
    [] wr = "write_fails" -> File(<<>>)

\* generate_tests, lines 191-211: one iteration of its retry loop, and lines
\* 356-368 of main when the call returns
G_Generate ==
  /\ script = "generate" /\ pc = "generate"
  /\ \E o \in Outcomes :
       /\ current_client_idx' = IdxAfter(o)
       /\ IF Retries(o)
            THEN /\ attempt' = attempt + 1
                 /\ log' = Append(log, CallEvent("generate", get_client, OutClass(o)))
                 /\ UNCHANGED <<pc, mod, tst, results, analysis>>
            ELSE /\ attempt' = 0
                 /\ pc' = "loop"
                 /\ mod' = mod + 1
                 \* analysis is a local of the loop body: it ends with the iteration
                 /\ analysis' = <<>>
                 /\ LET tests == Returned(o)
                        test_code == extract_zig_tests(tests)
                        called == Append(log, CallEvent("generate", get_client, OutClass(o)))
                    IN  IF tests = <<>>
                          THEN /\ results' = Append(results, Result(mod, FALSE, "generation failed"))
                               /\ log' = called
                               /\ UNCHANGED tst
                        ELSE IF test_code = <<>>
                          THEN /\ results' = Append(results, Result(mod, FALSE, "extraction failed"))
                               /\ log' = Append(called, ExtractEvent(test_code))
                               /\ UNCHANGED tst
                        ELSE \E wr \in SaveOutcomes :
                               /\ tst' = [tst EXCEPT ![mod] = SavedFile(wr, tst[mod], test_code)]
                               /\ results' = Append(results, Result(mod, TRUE, ""))
                               /\ log' = called \o <<ExtractEvent(test_code),
                                                     WriteEvent(wr, tst[mod], test_code)>>
  /\ UNCHANGED <<script, nclients, regenerate, src, stats, extractVars, repairVars>>

\* lines 370-382: the loop is over, the report is written
G_Report ==
  /\ script = "generate" /\ pc = "loop" /\ mod > NumModules
  /\ pc' = "done"
  /\ UNCHANGED <<script, nclients, regenerate, current_client_idx, mod, attempt, analysis,
                 src, tst, results, stats, log, extractVars, repairVars>>

(***************************************************************************)
(* generate_coverage_tests.main                                            *)
(***************************************************************************)
\* "test_code and len(test_code) > 100" (and "tests and len(tests) > 100")
LongEnough(code) == code # <<>> /\ CharLen(code) > MinLength

\* stats[field] += 1 and stats["processed"] += 1; "added" stands for the counter
\* generate_coverage_tests calls "enhanced"
Bump(st, field) == [st EXCEPT ![field] = @ + 1, !.processed = @ + 1]

\* what append_tests writes after the old content
Separator == <<"\n", "\n", SepLine, "\n", SepTitle, "\n", SepLine, "\n", "\n">>

\* open(path, "a") and f.write, neither inside a try: the file after the append
\* went as wr.  A write that fails after the open has created the file.
AppendOutcomes == {"ok", "open_fails", "write_fails"}

AppendedFile(wr, old, added) ==
  CASE wr = "ok" -> File(old.content \o added)
    [] wr = "open_fails" -> old
    [] wr = "write_fails" -> File(old.content)

\* lines 218-244 of main and lines 94-104 of generate_comprehensive_tests: from
\* the top of the loop body to the first submission.  The files are opened
\* outside any try.
C_Loop ==
  /\ script = "coverage" /\ pc = "loop" /\ mod <= NumModules
  /\ log' = <<>>
  /\ UNCHANGED <<script, nclients, regenerate, current_client_idx, analysis, src, tst,
                 results, extractVars, repairVars>>
  /\ \E rd \in {"ok", "fails"} :
       IF rd = "fails"
         THEN /\ pc' = "aborted"
              /\ UNCHANGED <<mod, attempt, stats>>
       ELSE LET content == src[mod].content
                existing_tests == IF tst[mod].exists THEN tst[mod].content ELSE <<>>
                untested == Untested(extract_functions(content),
                                     extract_tested_functions(existing_tests))
            IN  IF untested = <<>> /\ ~HasStructs(content)
                  THEN /\ stats' = Bump(stats, "skipped")
                       /\ mod' = mod + 1
                       /\ UNCHANGED <<pc, attempt>>
                  ELSE /\ pc' = "generate"
                       /\ attempt' = 0
                       /\ UNCHANGED <<mod, stats>>

\* generate_comprehensive_tests, lines 153-175: one iteration of its retry loop,
\* and lines 243-256 of main when the call returns
C_Generate ==
  /\ script = "coverage" /\ pc = "generate"
  /\ \E o \in Outcomes :
       /\ current_client_idx' = IdxAfter(o)
       /\ IF Retries(o)
            THEN /\ attempt' = attempt + 1
                 /\ log' = Append(log, CallEvent("generate", get_client, OutClass(o)))
                 /\ UNCHANGED <<pc, mod, tst, stats>>
            ELSE /\ attempt' = 0
                 /\ LET new_tests == Returned(o)
                        test_code == extract_zig_code(new_tests)
                        called == Append(log, CallEvent("generate", get_client, OutClass(o)))
                    IN  IF new_tests = <<>>
                          THEN /\ stats' = Bump(stats, "skipped")
                               /\ log' = called
                               /\ pc' = "loop" /\ mod' = mod + 1
                               /\ UNCHANGED tst
                        ELSE IF ~LongEnough(test_code)
                          THEN /\ stats' = Bump(stats, "skipped")
                               /\ log' = Append(called, ExtractEvent(test_code))
                               /\ pc' = "loop" /\ mod' = mod + 1
                               /\ UNCHANGED tst
                        ELSE \E wr \in AppendOutcomes :
                               /\ tst' = [tst EXCEPT ![mod] =
                                            AppendedFile(wr, tst[mod], Separator \o test_code)]
                               /\ log' = called \o <<ExtractEvent(test_code),
                                                     WriteEvent(wr, tst[mod], test_code)>>
                               /\ IF wr = "ok"
                                    THEN /\ stats' = Bump(stats, "added")
                                         /\ pc' = "loop" /\ mod' = mod + 1
                                    ELSE /\ pc' = "aborted"
                                         /\ UNCHANGED <<mod, stats>>
  /\ UNCHANGED <<script, nclients, regenerate, analysis, src, results, extractVars, repairVars>>

\* lines 258-262: the loop is over
C_Finish ==
  /\ script = "coverage" /\ pc = "loop" /\ mod > NumModules
  /\ pc' = "done"
  /\ UNCHANGED <<script, nclients, regenerate, current_client_idx, mod, attempt, analysis,
                 src, tst, results, stats, log, extractVars, repairVars>>

(***************************************************************************)
(* add_inline_tests.main                                                   *)
(***************************************************************************)
\* lines 174-195: from the top of the loop body to the first submission
I_Loop ==
  /\ script = "inline" /\ pc = "loop" /\ mod <= NumModules
  /\ log' = <<>>
  /\ UNCHANGED <<script, nclients, regenerate, current_client_idx, analysis, src, tst,
                 results, extractVars, repairVars>>
  /\ IF ~src[mod].exists
       THEN /\ stats' = [stats EXCEPT !.skipped = @ + 1]
            /\ mod' = mod + 1
            /\ UNCHANGED <<pc, attempt>>
     ELSE \E rd \in {"ok", "fails"} :
            IF rd = "fails"
              THEN /\ pc' = "aborted"
                   /\ UNCHANGED <<mod, attempt, stats>>
            ELSE IF has_tests(src[mod].content)
              THEN /\ stats' = [stats EXCEPT !.skipped = @ + 1]
                   /\ mod' = mod + 1
                   /\ UNCHANGED <<pc, attempt>>
            ELSE /\ pc' = "generate"
                 /\ attempt' = 0
                 /\ UNCHANGED <<mod, stats>>

\* generate_inline_tests, lines 122-140: one iteration of its retry loop, and
\* lines 197-208 of main when the call returns
I_Generate ==
  /\ script = "inline" /\ pc = "generate"
  /\ \E o \in Outcomes :
       /\ current_client_idx' = IdxAfter(o)
       /\ IF Retries(o)
            THEN /\ attempt' = attempt + 1
                 /\ log' = Append(log, CallEvent("generate", get_client, OutClass(o)))
                 /\ UNCHANGED <<pc, mod, src, stats>>
            ELSE /\ attempt' = 0
                 /\ LET resp == Returned(o)
                        tests == extract_tests(resp)
                        called == Append(log, CallEvent("generate", get_client, OutClass(o)))
                    IN  IF resp = <<>>
                          THEN /\ stats' = Bump(stats, "skipped")
                               /\ log' = called
                               /\ pc' = "loop" /\ mod' = mod + 1
                               /\ UNCHANGED src
                        ELSE IF ~LongEnough(tests)
                          THEN /\ stats' = Bump(stats, "skipped")
                               /\ log' = Append(called, ExtractEvent(tests))
                               /\ pc' = "loop" /\ mod' = mod + 1
                               /\ UNCHANGED src
                        ELSE \E wr \in AppendOutcomes :
                               /\ src' = [src EXCEPT ![mod] =
                                            AppendedFile(wr, src[mod], <<"\n", "\n">> \o tests)]
                               /\ log' = called \o <<ExtractEvent(tests),
                                                     WriteEvent(wr, src[mod], tests)>>
                               /\ IF wr = "ok"
                                    THEN /\ stats' = Bump(stats, "added")
                                         /\ pc' = "loop" /\ mod' = mod + 1
                                    ELSE /\ pc' = "aborted"
                                         /\ UNCHANGED <<mod, stats>>
  /\ UNCHANGED <<script, nclients, regenerate, analysis, tst, results, extractVars, repairVars>>

\* lines 210-214: the loop is over
I_Finish ==
  /\ script = "inline" /\ pc = "loop" /\ mod > NumModules
  /\ pc' = "done"
  /\ UNCHANGED <<script, nclients, regenerate, current_client_idx, mod, attempt, analysis,
                 src, tst, results, stats, log, extractVars, repairVars>>

\* no run of a repair script yet
NoPass ==
  [pass |-> "none", before |-> <<>>, after |-> <<>>, dry_run |-> FALSE,
   wrote |-> FALSE, returned |-> FALSE]

\* the repair scripts are not run
RepairIdle ==
  /\ filename = ""
  /\ file_content = <<>>
  /\ backups = {}
  /\ last = NoPass
  /\ npasses = 0
  /\ truncated = FALSE

(***************************************************************************)
(* The generation scripts as one specification: the entry point, the pool  *)
(* and the files are chosen at the start.                                  *)
(***************************************************************************)
Scripts == {"generate", "coverage", "inline"}

Init ==
  /\ script \in Scripts
  /\ nclients \in 1..MaxClients
  /\ regenerate \in (IF script = "generate" THEN BOOLEAN ELSE {FALSE})
  /\ current_client_idx = 0
  /\ pc = "loop"
  /\ mod = 1
  /\ attempt = 0
  /\ analysis = <<>>
  /\ \E setup \in [1..NumModules -> ModuleSetups(script)] :
       /\ src = [m \in 1..NumModules |-> setup[m].src]
       /\ tst = [m \in 1..NumModules |-> setup[m].tst]
  /\ results = <<>>
  /\ stats = [processed |-> 0, added |-> 0, skipped |-> 0]
  /\ log = <<>>
  /\ response = <<>>
  /\ extracted = <<>>
  /\ RepairIdle

Next ==
  \/ G_Loop \/ G_Analyze \/ G_Generate \/ G_Report
  \/ C_Loop \/ C_Generate \/ C_Finish
  \/ I_Loop \/ I_Generate \/ I_Finish

Spec == Init /\ [][Next]_vars

(***************************************************************************)
(* Properties of the generation scripts.  log holds the events of the      *)
(* module that was started last, in the order they happened.               *)
(***************************************************************************)
IsSubmission(e) == e.call \in {"analyze", "generate"}

Submissions(l) == SelectSeq(l, IsSubmission)

\* the submissions of one backend call (analyze_zig_file or a generation call)
CallsOf(l, c) == SelectSeq(l, LAMBDA e : e.call = c)

HasWrite(l) == \E k \in 1..Len(l) : l[k].call = "write"

AllRateLimited(l) ==
  /\ Submissions(l) # <<>>
  /\ \A k \in 1..Len(l) : IsSubmission(l[k]) => l[k].out = "rate"

\* the body of the loop has run to its end for the module the log is about
ModuleEnded == pc \in {"loop", "done"} /\ log # <<>>

\* the module the log is about is reported as failed (generate_ai_tests) or
\* counted as skipped (the other two scripts report nothing else)
ReportedFailed ==
  IF script = "generate"
    THEN Len(results) = mod - 1 /\ ~results[mod - 1].success
    ELSE stats.skipped > 0

\* C1, as the specification states it: when every submission made for a
\* module is answered with a rate-limit signal, at most N submissions are made
\* for that module, all backend calls counted together.
C1_AtMostNPerModule ==
  AllRateLimited(log) => Len(Submissions(log)) <= nclients

\* backend calls main makes for one module: analyze_zig_file and generate_tests
\* in generate_ai_tests, one generation call in the other two scripts
CallsPerModule == IF script = "generate" THEN 2 ELSE 1

\* C1, amended: when every submission made for a module is answered with a
\* rate-limit signal, each backend call makes at most N submissions, the module
\* gets at most N of them for each backend call main makes (2N in
\* generate_ai_tests, N in the other scripts), and once they are used up the
\* module is reported as failed and nothing is written.
C1_AtMostNPerCall ==
  AllRateLimited(log) =>
    /\ \A c \in {"analyze", "generate"} : Len(CallsOf(log, c)) <= nclients
    /\ Len(Submissions(log)) <= CallsPerModule * nclients
    /\ ModuleEnded =>
         /\ Len(Submissions(log)) = CallsPerModule * nclients
         /\ ReportedFailed
         /\ ~HasWrite(log)

\* a module of generate_ai_tests has used up the pool in both calls
C1_Witness ==
  /\ script = "generate" /\ nclients = MaxClients
  /\ ModuleEnded /\ AllRateLimited(log)
  /\ Len(Submissions(log)) = 2 * nclients

\* C2: the credential of a submission is the one at the current index; within
\* one backend call every submission but the last was answered with a
\* rate-limit signal and is followed by a submission with the credential that
\* cyclically follows it; no credential is used twice in the call, which makes
\* at most N submissions; the index moves on after a rate-limit signal only.
C2_RoundRobin ==
  /\ \A c \in {"analyze", "generate"} :
       LET calls == CallsOf(log, c)
       IN  /\ Len(calls) <= nclients
           /\ \A k \in 1..(Len(calls) - 1) :
                /\ calls[k].out = "rate"
                /\ calls[k + 1].cred = (calls[k].cred + 1) % nclients
           /\ \A j, k \in 1..Len(calls) : j # k => calls[j].cred # calls[k].cred
  /\ LET subs == Submissions(log)
     IN  subs # <<>> =>
           LET final == subs[Len(subs)]
           IN  get_client = IF final.out = "rate" THEN (final.cred + 1) % nclients
                                                  ELSE final.cred

\* a generation call that went through the whole pool, starting from a
\* credential other than the first and wrapping round
C2_Witness ==
  LET calls == CallsOf(log, "generate")
  IN  /\ nclients > 1
      /\ Len(calls) = nclients
      /\ calls[1].cred = nclients - 1
      /\ calls[2].cred = 0

C8_ThresholdIs100 ==
  \A k \in 1..Len(log) :
    log[k].call = "extract" => (HasWrite(log) <=> CharLen(log[k].code) >= MinLength)

\* C9: when save_tests fails to write the test file, the module is recorded as
\* failed and the file is what it was before.
C9_FailedWriteIsFailure ==
  \A k \in 1..Len(log) :
    (script = "generate" /\ log[k].call = "write" /\ log[k].out # "ok") =>
      /\ ~results[Len(results)].success
      /\ tst[results[Len(results)].filename] = log[k].before

\* C10: no failure ends the batch: the loop is never left before the last
\* module, and the script ends having gone through every module.
C10_BatchGoesOn ==
  /\ pc # "aborted"
  /\ pc = "done" => mod = NumModules + 1

\* what the extractor returned is empty or shorter than the minimum length
Unusable(code) == code = <<>> \/ CharLen(code) < MinLength

\* C11: when the extractor returns nothing, or less than the minimum length,
\* no file is created, overwritten or appended for the module, and at the end
\* of the loop body the module is reported as failed.
C11_UnusableNotWritten ==
  \A k \in 1..Len(log) :
    (log[k].call = "extract" /\ Unusable(log[k].code)) =>
      /\ ~HasWrite(log)
      /\ ModuleEnded => ReportedFailed

\* the tokens of name stand in s between the indices a and b, as a word
NamedBetween(s, a, b, name) ==
  \E i \in a..(b - Len(name) + 1) :
    /\ LowerName(SubSeq(s, i, i + Len(name) - 1)) = LowerName(name)
    /\ ~IsWord(s[i - 1])
    /\ ~IsWord(s[i + Len(name)])

\* the title of a test case of s holds the name
NamedInTitle(s, name) ==
  \E i \in 1..Len(s) :
    /\ TitleMatchEnd(s, i) > 0
    /\ NamedBetween(s, SkipWs(s, i + 1) + 1, TitleMatchEnd(s, i) - 1, name)

\* what read_existing_tests gives for module m
ExistingTests(m) == IF tst[m].exists THEN tst[m].content ELSE <<>>

\* the untested functions of module m, as main (lines 232-234) and
\* generate_comprehensive_tests (lines 94-101) compute them
UntestedOf(m, tests) ==
  Untested(extract_functions(src[m].content), extract_tested_functions(tests))

\* C15: a function whose name is in the title of a test case of the existing
\* test file is in the tracked set, and so is not among the untested functions
\* the coverage script asks tests for.
C15_TitledFunctionsTracked ==
  (script = "coverage" /\ pc = "generate") =>
    LET untested == UntestedOf(mod, ExistingTests(mod))
    IN  \A k \in 1..Len(untested) : ~NamedInTitle(ExistingTests(mod), untested[k])

\* the target of module m holds recognizable tests already: the test file is
\* there (generate_ai_tests), the source holds a test case (add_inline_tests),
\* the test file holds a test case (generate_coverage_tests)
AlreadySatisfied(m) ==
  CASE script = "generate" -> tst[m].exists
    [] script = "inline" -> has_tests(src[m].content)
    [] script = "coverage" -> has_tests(ExistingTests(m))
    [] OTHER -> FALSE

\* C16: for a module whose target holds tests already, and without the
\* override, no backend call is started: the entry point goes on to the next
\* module and leaves the file as it is.
C16_SatisfiedIsSkipped ==
  pc \in {"analyze", "generate"} => ~(AlreadySatisfied(mod) /\ ~regenerate)

\* the elements of a sequence
Range(q) == {q[k] : k \in 1..Len(q)}

\* C18: after tests were written or appended to the test file of a module,
\* the untested functions computed from the file as it is now are among the
\* untested functions computed from the file as it was before the write; so
\* for the append of generate_coverage_tests and for save_tests of
\* generate_ai_tests, which overwrites an existing file on regeneration.
C18_UntestedNeverGrows ==
  \A k \in 1..Len(log) :
    (script \in {"generate", "coverage"} /\ log[k].call = "write" /\ log[k].out = "ok") =>
      Range(UntestedOf(mod - 1, tst[mod - 1].content))
        \subseteq Range(UntestedOf(mod - 1, log[k].before.content))

\* a backend call of the module the log is about in which every credential of
\* the pool was rejected with a rate-limit signal
Exhausted(c) ==
  LET calls == CallsOf(log, c)
  IN  /\ Len(calls) = nclients
      /\ \A k \in 1..Len(calls) : calls[k].out = "rate"

\* the step submits a prompt to the backend
Submits == Len(log') > Len(log)

\* C22: the rotation index is always in 0..N-1.  A step that submits a prompt
\* does so with the credential at the index, and moves the index to the next
\* credential when the answer is a rate-limit signal and leaves it otherwise;
\* while the call goes on to its next attempt it changes no file, result or
\* count, and the pool never changes.  Every other step, the start of the next
\* module included, leaves the index alone, so the first submission of a
\* module uses the credential the previous call ended on.  A call in which all
\* N credentials were rate-limited leaves the index (and so the credential of
\* the call that follows) at the credential the call started with.
C22_IndexAcrossModules ==
  /\ [](current_client_idx \in 0..(nclients - 1))
  /\ [][IF Submits
          THEN LET e == log'[Len(log) + 1]
               IN  /\ IsSubmission(e)
                   /\ e.cred = current_client_idx
                   /\ current_client_idx' =
                        IF e.out = "rate" THEN (current_client_idx + 1) % nclients
                                          ELSE current_client_idx
                   /\ UNCHANGED nclients
                   /\ (pc' = pc /\ attempt' = attempt + 1) =>
                        /\ e.out = "rate"
                        /\ UNCHANGED <<mod, src, tst, results, stats, analysis>>
          ELSE UNCHANGED <<current_client_idx, nclients>>]_vars
  /\ [](/\ Exhausted("generate") =>
             current_client_idx = CallsOf(log, "generate")[1].cred
        /\ Exhausted("analyze") =>
             LET first == CallsOf(log, "analyze")[1].cred
                 next == CallsOf(log, "generate")
             IN  IF next = <<>> THEN current_client_idx = first
                                ELSE next[1].cred = first)

\* the call for the second module started on the credential the call for the
\* first module ended on, not on the first credential; it was rejected by the
\* whole pool and the index is back where that call started
C22_Witness ==
  /\ script \in {"coverage", "inline"} /\ nclients = MaxClients
  /\ mod = 3 /\ pc = "loop"
  /\ Exhausted("generate")
  /\ CallsOf(log, "generate")[1].cred = 1
  /\ current_client_idx = 1

(***************************************************************************)
(* The three extractors applied to a response of the backend: the response *)
(* is chosen at the start, one extractor is applied to it.                 *)
(***************************************************************************)
\* what a response is made of: fences, language tags, white space, code, and
\* a line that imports a module
ResponseTokens == {Fence, "zig", "python", "\n", " ", "x", ImportOther}

\* the sequences over S of length n at most
SeqsUpTo(S, n) == UNION {[1..k -> S] : k \in 0..n}

InitExtract ==
  /\ script = "none"
  /\ nclients = 1
  /\ regenerate = FALSE
  /\ current_client_idx = 0
  /\ pc = "response"
  /\ mod = 1
  /\ attempt = 0
  /\ analysis = <<>>
  /\ src = <<>>
  /\ tst = <<>>
  /\ results = <<>>
  /\ stats = [processed |-> 0, added |-> 0, skipped |-> 0]
  /\ log = <<>>
  /\ response \in SeqsUpTo(ResponseTokens, MaxRespLen)
  /\ extracted = <<>>
  /\ RepairIdle

\* generate_ai_tests.main line 358
Apply_extract_zig_tests ==
  /\ pc = "response"
  /\ extracted' = extract_zig_tests(response)
  /\ pc' = "extract_zig_tests"
  /\ UNCHANGED <<script, nclients, regenerate, current_client_idx, mod, attempt, analysis,
                 src, tst, results, stats, log, response, repairVars>>

\* generate_coverage_tests.main line 246
Apply_extract_zig_code ==
  /\ pc = "response"
  /\ extracted' = extract_zig_code(response)
  /\ pc' = "extract_zig_code"
  /\ UNCHANGED <<script, nclients, regenerate, current_client_idx, mod, attempt, analysis,
                 src, tst, results, stats, log, response, repairVars>>

\* add_inline_tests.main line 198
Apply_extract_tests ==
  /\ pc = "response"
  /\ extracted' = extract_tests(response)
  /\ pc' = "extract_tests"
  /\ UNCHANGED <<script, nclients, regenerate, current_client_idx, mod, attempt, analysis,
                 src, tst, results, stats, log, response, repairVars>>

NextExtract == Apply_extract_zig_tests \/ Apply_extract_zig_code \/ Apply_extract_tests

SpecExtract == InitExtract /\ [][NextExtract]_vars

Extractors == {"extract_zig_tests", "extract_zig_code", "extract_tests"}

\* what stands between the first fence of r and the fence after it (or the end)
FirstBlock(r) == UpToFence(From(r, Least({i \in 1..Len(r) : r[i] = Fence}) + 1))

\* the content of the first fenced block, trimmed.  Where the block starts
\* with a word, the word may be read as the language tag or as content: both
\* readings are given.
FirstBlockContents(r) ==
  LET block == FirstBlock(r)
  IN  {strip(block)} \cup
        (IF block # <<>> /\ IsWord(block[1]) THEN {strip(Tail(block))} ELSE {})

\* C7: an extractor returns the content of the first fenced block of the
\* response, whatever its language tag, and the trimmed response when the
\* response holds no fence; so for each of the three extractors.
C7_FirstBlockOrWhole ==
  pc \in Extractors =>
    IF HasFence(response)
      THEN extracted \in FirstBlockContents(response)
      ELSE extracted = strip(response)

(***************************************************************************)
(* The repair scripts run on one test file: the file is chosen at the      *)
(* start, then the scripts are run on it, in any order.                    *)
(***************************************************************************)
\* pieces of generated test files
DeclList == <<"var", " ", "list", " ", "=", " ", ArrInit, ";", "\n">>
DeclMy == <<"var", " ", "my", ":", " ", ArrType, ";", "\n">>
DeferList == <<"defer", " ", "list", DeinitOpen, ")", ";", "\n">>
MyDeinit == <<"my", DeinitOpen, ")", ";", "\n">>
\* the cleanup call of list in a comment, the one of my after an open quote
CommentedDefer == <<CommentMarker, " ">> \o DeferList
QuotedDeinit == <<"\"">> \o MyDeinit
GpaDecl == <<"const", " ", "gpa", " ", "=", " ", "x", ";", "\n">>
VarY == <<"var", " ", "y", " ", "=", " ">>
VarXConst == <<"var", " ", "x", " ", "=", " ", "const", " ">>
TypeUse == <<"z", " ", "=", " ", "ValidationResult", ".", "a", ";", "\n">>
SelfRef == <<"const", " ", "module.", "A", " ", "=", " ", "module.", "A", ";", "\n">>
StdImport == StdImportLine \o <<"\n">>
BlankLines == <<"bash", "\n", "\n", "\n">>
OpenBlock == <<"test", " ", "{", "\n">>
\* the cleanup call of mylist, an identifier that ends with the name list
LongerDeinit == <<"my", "list", DeinitOpen, ")", ";", "\n">>
\* the self-referential declaration as the last line, without a line end
SelfRefAtEnd == <<"const", " ", "module.", "A", " ", "=", " ", "module.", "A", ";">>
\* a malformed declaration line that holds an opening brace
PubConstBrace == <<"pub", " ", "const", " ", "module.", "A", " ", "{", ";", "\n">>
\* the declaration of the allocator in its usual spelling
AllocDecl == <<"const", " ", "alloc", " ", "=", " ", TestAlloc, ";", "\n">>
\* a known type named in a comment, and in a string literal after a blank
CommentedType == <<CommentMarker, " ", "ValidationResult", " ", "a", "\n">>
QuotedType == <<"x", "(", "\"", "a", " ", "ValidationResult", " ", "\"", ")", ";", "\n">>
\* a deferred cleanup call with a line break after the keyword
DeferBreakList == <<"defer", "\n", " ", "list", DeinitOpen, ")", ";", "\n">>

Snippets ==
  {DeclList, DeclMy, DeferList, MyDeinit, CommentedDefer, QuotedDeinit, GpaDecl, VarY, VarXConst,
   TypeUse, SelfRef, StdImport, BlankLines, OpenBlock, LongerDeinit, DeferBreakList,
   CommentedType, QuotedType, AllocDecl, PubConstBrace, SelfRefAtEnd}

RECURSIVE Concat(_)
Concat(ss) == IF ss = <<>> THEN <<>> ELSE Head(ss) \o Concat(Tail(ss))

\* the test files of the model
TestFiles == {Concat(ss) : ss \in SeqsUpTo(Snippets, MaxSnippets)}

\* a file with an entry in TYPE_MAPPINGS and one without
FileNames == {"test_validation.zig", "test_other.zig"}

InitRepair ==
  /\ script = "none"
  /\ nclients = 1
  /\ regenerate = FALSE
  /\ current_client_idx = 0
  /\ pc = "repair"
  /\ mod = 1
  /\ attempt = 0
  /\ analysis = <<>>
  /\ src = <<>>
  /\ tst = <<>>
  /\ results = <<>>
  /\ stats = [processed |-> 0, added |-> 0, skipped |-> 0]
  /\ log = <<>>
  /\ response = <<>>
  /\ extracted = <<>>
  /\ filename \in FileNames
  /\ file_content \in TestFiles
  /\ backups = {}
  /\ last = NoPass
  /\ npasses = 0
  /\ truncated = FALSE

\* what a run of a fix_test_file leaves in the history
Pass(name, new, dry_run, wrote) ==
  [pass |-> name, before |-> file_content, after |-> new, dry_run |-> dry_run,
   wrote |-> wrote, returned |-> new # file_content]

\* a run that writes whenever the content differs, dry run or not
WritesFile_ignores_dry_run(original, content, dry_run) == content # original

\* fix_arraylist_deinit.fix_test_file, lines 135-147: whether the run gets to
\* create_backup and to the write
WritesFile(original, content, dry_run) == content # original /\ ~dry_run

\* fix_arraylist_deinit.fix_test_file(filepath, dry_run), lines 84-150.
\* create_backup copies the file into .backups before the file is opened for
\* writing; the set holds the contents that were copied.
ArraylistDeinitFix ==
  /\ npasses < MaxPasses
  /\ \E dry_run \in BOOLEAN :
       LET new == InjectAllocator(file_content)
           writes == WritesFile(file_content, new, dry_run)
       IN  /\ backups' = IF writes THEN backups \cup {file_content} ELSE backups
           /\ file_content' = IF writes THEN new ELSE file_content
           /\ last' = Pass("fix_arraylist_deinit", new, dry_run, writes)
  /\ npasses' = npasses + 1
  /\ UNCHANGED <<orchVars, extractVars, filename, truncated>>

\* fix_tests.fix_test_file(filepath), lines 60-96
TestsFix ==
  /\ npasses < MaxPasses
  /\ LET new == QualifyAndDeinit(filename, file_content)
     IN  /\ file_content' = new
         /\ last' = Pass("fix_tests", new, FALSE, new # file_content)
  /\ npasses' = npasses + 1
  /\ UNCHANGED <<orchVars, extractVars, filename, backups, truncated>>

\* the body of the loop of fix_tests_comprehensive.main, lines 69-75:
\* fix_test_file, then check_truncated on what the file holds now
ComprehensiveFix ==
  /\ npasses < MaxPasses
  /\ LET new == Comprehensive(file_content)
     IN  /\ file_content' = new
         /\ last' = Pass("fix_tests_comprehensive", new, FALSE, new # file_content)
         /\ truncated' = check_truncated(new)
  /\ npasses' = npasses + 1
  /\ UNCHANGED <<orchVars, extractVars, filename, backups>>

NextRepair == ArraylistDeinitFix \/ TestsFix \/ ComprehensiveFix

SpecRepair == InitRepair /\ [][NextRepair]_vars

\* the content a pass makes of content c of file f
PassOf(p, f, c) ==
  CASE p = "fix_arraylist_deinit" -> InjectAllocator(c)
    [] p = "fix_tests" -> QualifyAndDeinit(f, c)
    [] p = "fix_tests_comprehensive" -> Comprehensive(c)
    [] OTHER -> c

\* C4: when a repair script has written the file, a backup holds what the
\* file held before that write.
C4_BackupBeforeWrite == last.wrote => last.before \in backups

\* C5: a repair pass applied to its own output changes nothing.
C5_PassIdempotent ==
  last.pass # "none" => PassOf(last.pass, filename, last.after) = last.after

\* a cleanup call without arguments at index i of s
EmptyDeinitAt(s, i) == s[i] = DeinitOpen /\ i < Len(s) /\ s[i + 1] = ")"

\* the cleanup calls without arguments that stand after a comment marker on
\* their line, or after an odd number of unescaped double quotes
ProtectedDeinits(s) ==
  {i \in 1..Len(s) : EmptyDeinitAt(s, i) /\ is_inside_comment_or_string(s, i)}

\* C6: neither the declaration-based pass nor the pass with the fixed list of
\* names rewrites a cleanup call that stands in a comment or in a string: the
\* output holds as many of them, unchanged, as the input.
C6_ProtectedCallsKept ==
  last.pass \in {"fix_arraylist_deinit", "fix_tests"} =>
    Cardinality(ProtectedDeinits(last.after)) = Cardinality(ProtectedDeinits(last.before))

\* the index at which the run of word tokens that ends at index j of s starts
\* (j + 1 when s[j] is no word token)
RECURSIVE WordRunStart(_, _)
WordRunStart(s, j) == IF j >= 1 /\ IsWord(s[j]) THEN WordRunStart(s, j - 1) ELSE j + 1

\* the first index of the white space that ends at index j of s
RECURSIVE WsStart(_, _)
WsStart(s, j) == IF j >= 1 /\ IsSpace(s[j]) THEN WsStart(s, j - 1) ELSE j + 1

\* the identifier the cleanup call at index i of s is made on
Receiver(s, i) == SubSeq(s, WordRunStart(s, i - 1), i - 1)

\* the index of the keyword when the call at index i is of the deferred form
\* "defer NAME.deinit()", and 0 otherwise
DeferOf(s, i) ==
  LET n == WordRunStart(s, i - 1)
      w == WsStart(s, n - 1)
  IN  IF w < n /\ w > 1 /\ s[w - 1] = "defer" /\ WordStart(s, w - 1) THEN w - 1 ELSE 0

\* the call at index i is of the inline form "NAME.deinit();"
InlineForm(s, i) ==
  /\ i + 2 <= Len(s) /\ s[i + 2] = ";"
  /\ WordStart(s, WordRunStart(s, i - 1))

\* the calls the claim asks to be rewritten: bare cleanup calls on a declared
\* growable buffer, of the deferred or of the inline form, whose form starts
\* outside comment and string context
CallsToRewrite(s) ==
  {i \in 1..Len(s) :
     /\ EmptyDeinitAt(s, i)
     /\ Receiver(s, i) \in arraylist_vars(s)
     /\ \/ DeferOf(s, i) > 0 /\ ~is_inside_comment_or_string(s, DeferOf(s, i))
        \/ InlineForm(s, i) /\ ~is_inside_comment_or_string(s, WordRunStart(s, i - 1))}

\* the white space between the keyword and the name of the deferred calls that
\* are rewritten: the rewrite leaves one blank there
DeferGaps(s) ==
  {k \in 1..Len(s) :
     \E i \in CallsToRewrite(s) :
       /\ DeferOf(s, i) > 0 /\ ~is_inside_comment_or_string(s, DeferOf(s, i))
       /\ DeferOf(s, i) < k /\ k < WordRunStart(s, i - 1)}

\* s with the name alloc put into the calls of R, and nothing else changed
RECURSIVE WithArgument(_, _, _, _, _)
WithArgument(s, i, R, gaps, alloc) ==
  IF i > Len(s) THEN <<>>
  ELSE (IF i \in R THEN <<DeinitOpen>> \o alloc
        ELSE IF i \in gaps THEN (IF i - 1 \in gaps THEN <<>> ELSE <<" ">>)
        ELSE <<s[i]>>) \o WithArgument(s, i + 1, R, gaps, alloc)

\* C12: the declaration-based pass puts the detected allocator name into every
\* bare cleanup call, deferred or inline, that is made on a declared growable
\* buffer outside comment and string context, and changes nothing else: calls
\* on other identifiers, such as a longer identifier that ends with a declared
\* name, stay as they are.
C12_DeclaredCallsGetAllocator ==
  last.pass = "fix_arraylist_deinit" =>
    last.after = WithArgument(last.before, 1, CallsToRewrite(last.before),
                              DeferGaps(last.before), detect_allocator_name(last.before))

\* the pass has run on a file that declares list and holds a deferred cleanup
\* call of list outside comments and strings, and the call now passes alloc
C12_Witness ==
  /\ last.pass = "fix_arraylist_deinit"
  /\ <<"list">> \in arraylist_vars(last.before)
  /\ \E i \in CallsToRewrite(last.before) : DeferOf(last.before, i) > 0
  /\ \E i \in 1..(Len(last.after) - 2) :
       /\ last.after[i] = DeinitOpen /\ last.after[i + 1] = "alloc" /\ last.after[i + 2] = ")"
       /\ Receiver(last.after, i) = <<"list">>
       /\ DeferOf(last.after, i) > 0

\* the occurrences of a type of the file in s that follow the prefix module.
\* and stand in comment or string context
QualifiedInContext(f, s) ==
  {i \in 2..Len(s) :
     /\ \E k \in 1..Len(TYPE_MAPPINGS(f)) : s[i] = TYPE_MAPPINGS(f)[k]
     /\ s[i - 1] = "module."
     /\ is_inside_comment_or_string(s, i)}

\* C13: the qualification pass gives the prefix module. to no occurrence of a
\* known type that stands after a comment marker on its line or inside a
\* string literal, and never writes module.module.
C13_ContextKeptUnqualified ==
  last.pass = "fix_tests" =>
    /\ Cardinality(QualifiedInContext(filename, last.after))
         = Cardinality(QualifiedInContext(filename, last.before))
    /\ \A i \in 1..(Len(last.after) - 1) :
         ~(last.after[i] = "module." /\ last.after[i + 1] = "module.")

\* a recognized declaration of a memory context starts at index i of s:
\* const or var, one of the spellings, "=", and for alloc and allocator the
\* testing allocator after it (var is recognized with these two only)
AllocatorDeclAt(s, i) ==
  /\ s[i] \in {"const", "var"} /\ i < Len(s) /\ IsSpace(s[i + 1])
  /\ LET n == SkipWs(s, i + 1)
         p == SkipWs(s, n + 1)
         q == SkipWs(s, p + 1)
     IN  /\ n <= Len(s) /\ p <= Len(s) /\ s[p] = "="
         /\ \/ s[n] \in {"alloc", "allocator"} /\ q <= Len(s) /\ s[q] = TestAlloc
            \/ s[n] \in {"gpa", "ally"} /\ s[i] = "const"

\* the name bound by the recognized declaration that stands first in s
FirstDeclaredAllocator(s) ==
  LET i == Least({k \in 1..Len(s) : AllocatorDeclAt(s, k)}) IN <<s[SkipWs(s, i + 1)]>>

\* C14: detect_allocator_name returns the name bound by the recognized
\* declaration that comes first in the text of the file; without such a
\* declaration it returns std.testing.allocator when the file refers to it, and
\* alloc otherwise.
C14_FirstDeclarationWins ==
  last.pass = "fix_arraylist_deinit" =>
    detect_allocator_name(last.before) =
      IF \E k \in 1..Len(last.before) : AllocatorDeclAt(last.before, k)
        THEN FirstDeclaredAllocator(last.before)
      ELSE IF \E k \in 1..Len(last.before) : last.before[k] = TestAlloc
        THEN <<TestAlloc>>
      ELSE <<"alloc">>

\* the tokens of s that hold an opening brace, and those that hold a closing one
OpeningAt(s) == {i \in 1..Len(s) : OpenBraces(s[i]) = 1}
ClosingAt(s) == {i \in 1..Len(s) : CloseBraces(s[i]) = 1}

\* C17: after the structural cleanup of a file, the file is on the list of
\* potentially truncated files exactly when the content the cleanup left holds
\* a number of "{" that differs from its number of "}"; the check reads the
\* file after the cleanup and leaves it as the cleanup wrote it.
C17_FlaggedIffUnbalanced ==
  last.pass = "fix_tests_comprehensive" =>
    /\ file_content = last.after
    /\ truncated <=> Cardinality(OpeningAt(last.after)) # Cardinality(ClosingAt(last.after))

\* the cleanup has rewritten a file whose braces do not balance: the file is
\* kept as rewritten and is on the list
C17_Witness ==
  /\ last.pass = "fix_tests_comprehensive"
  /\ last.wrote
  /\ truncated
  /\ file_content = last.after
  /\ Cardinality(OpeningAt(file_content)) > Cardinality(ClosingAt(file_content))

\* the three passes in the required order: cleanup-parameter injection,
\* symbol qualification, structural cleanup
PipelineOnce(f, c) == Comprehensive(QualifyAndDeinit(f, InjectAllocator(c)))

\* the cleanup calls of s that pass an argument
CallsWithArgument(s) == {i \in 1..(Len(s) - 1) : s[i] = DeinitOpen /\ s[i + 1] # ")"}

\* C19: when the injection pass has written a file and the other two passes
\* are run on it in the required order, the text they leave is a fixed point
\* of the whole pipeline, and the arguments the earlier passes gave to cleanup
\* calls are still there after the later passes.
C19_PipelineFixedPoint ==
  (last.pass = "fix_arraylist_deinit" /\ ~last.dry_run) =>
    LET qualified == QualifyAndDeinit(filename, last.after)
        once == Comprehensive(qualified)
    IN  /\ PipelineOnce(filename, once) = once
        /\ Cardinality(CallsWithArgument(last.after)) <= Cardinality(CallsWithArgument(qualified))
        /\ Cardinality(CallsWithArgument(qualified)) = Cardinality(CallsWithArgument(once))

\* a line of the form "const module.X = module.X;" starts at index i of s: the
\* name is bound to itself, and nothing but white space follows on the line
SelfRefLineAt(s, i) ==
  /\ LineStart(s, i) /\ i + 3 <= Len(s)
  /\ s[i] = "const" /\ s[i + 1] = " " /\ s[i + 2] = "module."
  /\ LET e == WordRunEnd(s, i + 3)
         n == e - (i + 3)
     IN  /\ n > 0 /\ e + 4 + n <= Len(s)
         /\ SubSeq(s, e, e + 3) = <<" ", "=", " ", "module.">>
         /\ SubSeq(s, e + 4, e + 3 + n) = SubSeq(s, i + 3, e - 1)
         /\ s[e + 4 + n] = ";"
         /\ LET w == SkipWs(s, e + 5 + n)
            IN  w > Len(s) \/ LastNewline(s, e + 5 + n, w - 1) > 0

\* a well-formed declaration of a constant starts at index i of s: a plain
\* name is bound, and the line is not the import of std
PlainConstAt(s, i) ==
  /\ LineStart(s, i) /\ i + 2 <= Len(s)
  /\ s[i] = "const" /\ s[i + 1] = " " /\ IsWord(s[i + 2])
  /\ ~(i + 7 <= Len(s) /\ SubSeq(s, i, i + 7) = StdImportLine)

\* C20: the structural cleanup leaves no line of the form
\* "const module.X = module.X;" in the file, be it the last line without a
\* line end, and removes no well-formed declaration of a constant.
C20_SelfRefsRemoved ==
  last.pass = "fix_tests_comprehensive" =>
    /\ \A i \in 1..Len(last.after) : ~SelfRefLineAt(last.after, i)
    /\ Cardinality({i \in 1..Len(last.before) : PlainConstAt(last.before, i)})
         <= Cardinality({i \in 1..Len(last.after) : PlainConstAt(last.after, i)})

\* C21: a run of fix_arraylist_deinit.fix_test_file writes the file and makes
\* a backup exactly when dry_run is false and the rewritten content differs
\* from the content read.  Then the backup holds the content the file had
\* before the write and the file holds the whole new content; otherwise
\* neither the file nor the backups change.
C21_WriteDiscipline ==
  [][(last'.pass = "fix_arraylist_deinit" /\ npasses' = npasses + 1) =>
       /\ last'.before = file_content
       /\ last'.after = InjectAllocator(file_content)
       /\ IF ~last'.dry_run /\ last'.after # file_content
            THEN /\ file_content' = last'.after
                 /\ backups' = backups \cup {file_content}
            ELSE /\ file_content' = file_content
                 /\ backups' = backups]_vars

\* a run without dry_run has rewritten the file: the backup holds the old
\* content, the file the new one
C21_Witness ==
  /\ last.pass = "fix_arraylist_deinit"
  /\ ~last.dry_run
  /\ last.after # last.before
  /\ last.before \in backups
  /\ last.after \notin backups
  /\ file_content = last.after

=============================================================================
